---- MODULE Spec2Model ----
(***************************************************************************)
(* Spaced-repetition scheduling engine of vocabulary-learning:             *)
(*   core/progress_tracking.py  (update_progress, calculate_priority,      *)
(*                               is_mastered, count_active_learning_words) *)
(*   core/practice.py           (verify_data, select_word, practice_mode)  *)
(*   core/file_operations.py    (save_progress)                            *)
(*                                                                         *)
(* Units.  The clock counts ticks of 0.0001 hour.  Intervals are kept in   *)
(* units of 0.00001 hour, so that (elapsed ticks) x (easiness in tenths)   *)
(* is the product hours_since_last * easiness_factor without rounding.     *)
(* Easiness factors are kept in tenths.  Priorities are exact fractions.   *)
(***************************************************************************)
EXTENDS Integers, Sequences, FiniteSets, TLC

VARIABLES now, vocabulary, progress, file, remote, result, created, pm, steps,
          service

vars == <<now, vocabulary, progress, file, remote, result, created, pm, steps,
          service>>

----------------------------------------------------------------------------
(* core/constants.py *)

INITIAL_EASINESS_FACTOR == 25
MIN_EASINESS_FACTOR == 13
EASINESS_INCREASE == 1
EASINESS_DECREASE == 2
FIRST_SUCCESS_INTERVAL == 3330
SECOND_SUCCESS_INTERVAL == 2400000
MAX_ACTIVE_WORDS == 8
MASTERY_MIN_SUCCESSES == 5
MASTERY_SUCCESS_RATE == 85
FAILED_WORD_PRIORITY_BONUS == 3
HALF_LIFE_DAYS == 30
MAX_REVIEW_INTERVALS_HISTORY == 10

(* a field list without the scheduling fields, used to test the integrity *)
(* property of select_word                                                 *)
REQUIRED_PROGRESS_FIELDS_unscheduled ==
  {"attempts", "successes", "last_attempt_was_failure", "last_seen",
   "review_intervals"}

REQUIRED_PROGRESS_FIELDS ==
  {"attempts", "successes", "interval", "last_attempt_was_failure",
   "last_seen", "review_intervals", "easiness_factor"}

REQUIRED_VOCABULARY_COLUMNS == {"japanese", "kanji", "french", "example_sentence"}

(* clock ticks in one hour: (now - last_seen).total_seconds() / 3600.0 *)
TicksPerHour == 10000

(* ticks in one half-life: HALF_LIFE_DAYS * 24 hours *)
HalfLifeTicks == HALF_LIFE_DAYS * 24 * TicksPerHour

----------------------------------------------------------------------------
(* Bounds of the model *)

MaxSteps == 3
MaxSelects == 2
MaxSessionSteps == 26
MaxFailures == 1
MaxJumps == 1
MaxPracticeSteps == 6
MaxStoreSteps == 3
MaxHalfLives == 18
MaxEvaluations == 3
MaxComputedSteps == 4
MaxRoundSteps == 8
MaxRecorderSteps == 6

----------------------------------------------------------------------------
(* Python dict helpers.  A progress map is an insertion-ordered dict: a    *)
(* sequence of entries [k |-> word id, v |-> record].  A record is a       *)
(* function from field names to values; a missing key is a field outside   *)
(* its DOMAIN.                                                             *)

Keys(p) == {p[i].k : i \in DOMAIN p}

Has(p, w) == w \in Keys(p)

IndexOf(p, w) == CHOOSE i \in DOMAIN p : p[i].k = w

Get(p, w) == p[IndexOf(p, w)].v

SetItem(p, w, d) ==
  IF Has(p, w) THEN [p EXCEPT ![IndexOf(p, w)] = [k |-> w, v |-> d]]
  ELSE Append(p, [k |-> w, v |-> d])

Put(d, f, x) == [g \in DOMAIN d \cup {f} |-> IF g = f THEN x ELSE d[g]]

Max2(a, b) == IF a >= b THEN a ELSE b

Min2(a, b) == IF a <= b THEN a ELSE b

RECURSIVE Pow2(_)
Pow2(n) == IF n <= 0 THEN 1 ELSE 2 * Pow2(n - 1)

----------------------------------------------------------------------------
(* progress_tracking.calculate_next_interval.  hsl is the elapsed time in  *)
(* ticks; the fallback product is floored to the interval unit.            *)

calculate_next_interval_sm2(current_interval, easiness_factor, hsl) ==
  IF current_interval = 0 THEN FIRST_SUCCESS_INTERVAL
  ELSE IF current_interval = FIRST_SUCCESS_INTERVAL THEN SECOND_SUCCESS_INTERVAL
  ELSE (current_interval * easiness_factor) \div 10

(* variant without the fallback to the current interval, used to test that *)
(* intervals stay positive                                                 *)
calculate_next_interval_elapsed_only(current_interval, easiness_factor, hsl) ==
  IF current_interval = 0 THEN FIRST_SUCCESS_INTERVAL
  ELSE IF current_interval = FIRST_SUCCESS_INTERVAL THEN SECOND_SUCCESS_INTERVAL
  ELSE hsl * easiness_factor

(* variant without the second step of the ladder, used to test the         *)
(* interval of the success that follows a failure                          *)
calculate_next_interval_no_second(current_interval, easiness_factor, hsl) ==
  IF current_interval = 0 THEN FIRST_SUCCESS_INTERVAL
  ELSE IF hsl # 0 /\ hsl > 0 THEN hsl * easiness_factor
  ELSE (current_interval * easiness_factor) \div 10

calculate_next_interval(current_interval, easiness_factor, hsl) ==
  IF current_interval = 0 THEN FIRST_SUCCESS_INTERVAL
  ELSE IF current_interval = FIRST_SUCCESS_INTERVAL THEN SECOND_SUCCESS_INTERVAL
  ELSE IF hsl # 0 /\ hsl > 0 THEN hsl * easiness_factor
  ELSE (current_interval * easiness_factor) \div 10

(* the record update_progress creates for a word that has none *)
NewRecord(t) ==
  [attempts |-> 0, successes |-> 0, interval |-> 0,
   last_attempt_was_failure |-> FALSE, last_seen |-> t,
   review_intervals |-> <<>>, easiness_factor |-> INITIAL_EASINESS_FACTOR,
   attempt_history |-> <<>>, first_introduced |-> t]

----------------------------------------------------------------------------
(* progress_tracking.update_progress, lines 83-127, on one record.  The    *)
(* statements run in source order on a state s = [d, err, hsl, bound]:     *)
(* d is the record as mutated so far, err the exception that ended the     *)
(* call ("none" while running), hsl the local hours_since_last and bound   *)
(* whether that local has been assigned.                                   *)

(* lines 84-89: elapsed time, appended to review_intervals *)
RecordElapsed(s, t) ==
  IF s.err # "none" THEN s
  ELSE IF "last_seen" \notin DOMAIN s.d THEN s
  ELSE LET h == t - s.d["last_seen"] IN
       IF "review_intervals" \notin DOMAIN s.d
       THEN [s EXCEPT !.hsl = h, !.bound = TRUE, !.err = "KeyError"]
       ELSE [s EXCEPT !.hsl = h, !.bound = TRUE,
                      !.d = Put(s.d, "review_intervals",
                                Append(s.d["review_intervals"], h))]

(* variant that counts every attempt as a success, used to test the        *)
(* agreement of the counter with the history                               *)
CountAttempt_always(s, success) ==
  IF s.err # "none" THEN s
  ELSE IF "attempts" \notin DOMAIN s.d THEN [s EXCEPT !.err = "KeyError"]
  ELSE LET d1 == Put(s.d, "attempts", s.d["attempts"] + 1) IN
       IF "successes" \notin DOMAIN d1
       THEN [s EXCEPT !.d = d1, !.err = "KeyError"]
       ELSE [s EXCEPT !.d = Put(d1, "successes", d1["successes"] + 1)]

(* lines 92-94: attempts += 1, successes += 1 *)
CountAttempt(s, success) ==
  IF s.err # "none" THEN s
  ELSE IF "attempts" \notin DOMAIN s.d THEN [s EXCEPT !.err = "KeyError"]
  ELSE LET d1 == Put(s.d, "attempts", s.d["attempts"] + 1) IN
       IF ~success THEN [s EXCEPT !.d = d1]
       ELSE IF "successes" \notin DOMAIN d1
            THEN [s EXCEPT !.d = d1, !.err = "KeyError"]
            ELSE [s EXCEPT !.d = Put(d1, "successes", d1["successes"] + 1)]

(* lines 97-101: attempt_history defaulted to [] and appended *)
AppendHistory(s, success, t) ==
  IF s.err # "none" THEN s
  ELSE LET h0 == IF "attempt_history" \in DOMAIN s.d
                 THEN s.d["attempt_history"] ELSE <<>>
       IN [s EXCEPT !.d = Put(s.d, "attempt_history",
                              Append(h0, [timestamp |-> t, success |-> success]))]

(* variant that raises the easiness factor before it computes the          *)
(* interval, used to test which factor enters the interval                 *)
ApplySuccess_adjust_first(s) ==
  IF "interval" \notin DOMAIN s.d \/ "easiness_factor" \notin DOMAIN s.d
  THEN [s EXCEPT !.err = "KeyError"]
  ELSE IF ~s.bound THEN [s EXCEPT !.err = "UnboundLocalError"]
  ELSE LET d1 == IF s.d["easiness_factor"] < INITIAL_EASINESS_FACTOR
                 THEN Put(s.d, "easiness_factor",
                          Min2(s.d["easiness_factor"] + EASINESS_INCREASE,
                               INITIAL_EASINESS_FACTOR))
                 ELSE s.d
       IN [s EXCEPT !.d = Put(d1, "interval",
                              calculate_next_interval(d1["interval"],
                                                      d1["easiness_factor"], s.hsl))]

(* lines 104-115: a success sets the next interval, then raises the        *)
(* easiness factor up to the initial one                                   *)
ApplySuccess(s) ==
  IF "interval" \notin DOMAIN s.d \/ "easiness_factor" \notin DOMAIN s.d
  THEN [s EXCEPT !.err = "KeyError"]
  ELSE IF ~s.bound THEN [s EXCEPT !.err = "UnboundLocalError"]
  ELSE LET d1 == Put(s.d, "interval",
                     calculate_next_interval(s.d["interval"],
                                             s.d["easiness_factor"], s.hsl))
       IN IF d1["easiness_factor"] < INITIAL_EASINESS_FACTOR
          THEN [s EXCEPT !.d = Put(d1, "easiness_factor",
                                   Min2(d1["easiness_factor"] + EASINESS_INCREASE,
                                        INITIAL_EASINESS_FACTOR))]
          ELSE [s EXCEPT !.d = d1]

(* lines 116-123: a failure resets the interval, then lowers the easiness  *)
(* factor down to the minimum                                              *)
ApplyFailure_NoReset(s) ==
  IF "easiness_factor" \notin DOMAIN s.d
  THEN [s EXCEPT !.err = "KeyError"]
  ELSE [s EXCEPT !.d = Put(s.d, "easiness_factor",
                           Max2(s.d["easiness_factor"] - EASINESS_DECREASE,
                                MIN_EASINESS_FACTOR))]

ApplyFailure_NoFloor(s) ==
  LET d1 == Put(s.d, "interval", FIRST_SUCCESS_INTERVAL) IN
  IF "easiness_factor" \notin DOMAIN d1
  THEN [s EXCEPT !.d = d1, !.err = "KeyError"]
  ELSE [s EXCEPT !.d = Put(d1, "easiness_factor",
                           d1["easiness_factor"] - EASINESS_DECREASE)]

ApplyFailure(s) ==
  LET d1 == Put(s.d, "interval", FIRST_SUCCESS_INTERVAL) IN
  IF "easiness_factor" \notin DOMAIN d1
  THEN [s EXCEPT !.d = d1, !.err = "KeyError"]
  ELSE [s EXCEPT !.d = Put(d1, "easiness_factor",
                           Max2(d1["easiness_factor"] - EASINESS_DECREASE,
                                MIN_EASINESS_FACTOR))]

(* lines 104-123: interval and easiness factor *)
ApplyOutcome(s, success) ==
  IF s.err # "none" THEN s
  ELSE IF success THEN ApplySuccess(s) ELSE ApplyFailure(s)

(* lines 126-127: last_seen and last_attempt_was_failure *)
(* variant that stamps first_introduced on every update, used to test the  *)
(* frame property of first_introduced                                      *)
MarkSeen_restamp(s, success, t) ==
  IF s.err # "none" THEN s
  ELSE [s EXCEPT !.d = Put(Put(Put(s.d, "last_seen", t),
                               "last_attempt_was_failure", ~success),
                           "first_introduced", t)]

MarkSeen(s, success, t) ==
  IF s.err # "none" THEN s
  ELSE [s EXCEPT !.d = Put(Put(s.d, "last_seen", t),
                           "last_attempt_was_failure", ~success)]

update_record(d, success, t) ==
  MarkSeen(
    ApplyOutcome(
      AppendHistory(
        CountAttempt(
          RecordElapsed([d |-> d, err |-> "none", hsl |-> 0, bound |-> FALSE], t),
          success),
        success, t),
      success),
    success, t)

----------------------------------------------------------------------------
(* Fractions [n, d] with n >= 0 and d > 0, compared without forming the    *)
(* cross products.                                                         *)

Frac(n, d) == [n |-> n, d |-> d]

RECURSIVE LessRec(_, _, _, _)
LessRec(a, b, c, d) ==
  LET q1 == a \div b
      q2 == c \div d
      r1 == a % b
      r2 == c % d
  IN IF q1 # q2 THEN q1 < q2
     ELSE IF r2 = 0 THEN FALSE
     ELSE IF r1 = 0 THEN TRUE
     ELSE LessRec(d, r2, b, r1)

FracLess(x, y) == LessRec(x.n, x.d, y.n, y.d)

FracEq(x, y) == ~FracLess(x, y) /\ ~FracLess(y, x)

----------------------------------------------------------------------------
(* progress_tracking.calculate_weighted_success_rate.  The weight          *)
(* 2.718 ** (-(0.693 / (HALF_LIFE_DAYS * 24)) * hours_ago) is taken at     *)
(* whole half-lives, where it is 2^-k; all weights carry the common factor *)
(* 2^MaxHalfLives, which cancels in the rate.  The result is the fraction  *)
(* weighted_successes / total_weight.                                      *)

Weight(hours_ago) == Pow2(MaxHalfLives - (hours_ago \div HalfLifeTicks))

RECURSIVE SumWeights(_, _, _)
SumWeights(attempt_history, t, onlySuccess) ==
  IF attempt_history = <<>> THEN 0
  ELSE LET a == Head(attempt_history)
           w == Weight(t - a.timestamp)
       IN (IF onlySuccess /\ ~a.success THEN 0 ELSE w)
          + SumWeights(Tail(attempt_history), t, onlySuccess)

(* variant that does not divide by the total weight but by the number of   *)
(* attempts, so that the rate falls toward 0 as the attempts age; used to  *)
(* test the dependence of mastery on the evaluation time                   *)
calculate_weighted_success_rate_unnormalised(attempt_history, t) ==
  IF attempt_history = <<>> THEN Frac(0, 1)
  ELSE Frac(SumWeights(attempt_history, t, TRUE),
            Len(attempt_history) * Pow2(MaxHalfLives))

calculate_weighted_success_rate(attempt_history, t) ==
  IF attempt_history = <<>> THEN Frac(0, 1)
  ELSE LET total_weight == SumWeights(attempt_history, t, FALSE)
           weighted_successes == SumWeights(attempt_history, t, TRUE)
       IN IF total_weight = 0 THEN Frac(0, 1)
          ELSE Frac(weighted_successes, total_weight)

(* the rates the floating-point sums and quotient of lines 157-175 can     *)
(* return.  Away from MASTERY_SUCCESS_RATE rounding changes no comparison  *)
(* and the exact rate stands for the computed one.  When the exact rate    *)
(* equals MASTERY_SUCCESS_RATE and the weights are not all 1.0 (some       *)
(* attempt is older than t), the rounded sums give a quotient that is 0.85 *)
(* or the next float below it, depending on t.                             *)
computed_rates(attempt_history, t) ==
  LET r == calculate_weighted_success_rate(attempt_history, t)
  IN IF /\ FracEq(r, Frac(MASTERY_SUCCESS_RATE, 100))
        /\ \E i \in DOMAIN attempt_history : attempt_history[i].timestamp # t
     THEN {r, Frac(2 * r.n - 1, 2 * r.d)}
     ELSE {r}

AttemptHistoryOf(word_data) ==
  IF "attempt_history" \in DOMAIN word_data
  THEN word_data["attempt_history"] ELSE <<>>

(* variant that ignores the number of successes, used to test the mastery  *)
(* criterion                                                               *)
MasteryVerdict_rate_only(word_data, weighted_success_rate) ==
  IF DOMAIN word_data = {} THEN FALSE
  ELSE ~FracLess(weighted_success_rate, Frac(MASTERY_SUCCESS_RATE, 100))

(* progress_tracking.is_mastered lines 238-250, given the value returned   *)
(* by calculate_weighted_success_rate                                      *)
MasteryVerdict(word_data, weighted_success_rate) ==
  IF DOMAIN word_data = {} THEN FALSE
  ELSE LET successes == IF "successes" \in DOMAIN word_data
                        THEN word_data["successes"] ELSE 0
       IN IF successes < MASTERY_MIN_SUCCESSES THEN FALSE
          ELSE ~FracLess(weighted_success_rate, Frac(MASTERY_SUCCESS_RATE, 100))

(* progress_tracking.is_mastered, with the rate in exact arithmetic *)
is_mastered(word_data, t) ==
  MasteryVerdict(word_data,
                 calculate_weighted_success_rate(AttemptHistoryOf(word_data), t))

(* variants of the new-item score used to test the selection properties:   *)
(* a score above the cap of an overdue item, and a capacity test that      *)
(* still admits a new item at MAX_ACTIVE_WORDS                             *)
calculate_priority_new_above_max(active_words_count) ==
  IF active_words_count < MAX_ACTIVE_WORDS THEN Frac(12, 10) ELSE Frac(0, 1)

calculate_priority_new_inclusive(active_words_count) ==
  IF active_words_count <= MAX_ACTIVE_WORDS THEN Frac(8, 10) ELSE Frac(0, 1)

(* progress_tracking.calculate_priority, word_data is None (lines 190-194) *)
calculate_priority_new(active_words_count) ==
  IF active_words_count < MAX_ACTIVE_WORDS THEN Frac(8, 10) ELSE Frac(0, 1)

(* progress_tracking.calculate_priority, word_data a record (lines 196-221) *)
calculate_priority(word_data, active_words_count, t) ==
  IF "interval" \notin DOMAIN word_data THEN Frac(0, 1)
  ELSE LET hours_since_last == t - word_data["last_seen"]
           interval == word_data["interval"]
           failed == IF "last_attempt_was_failure" \in DOMAIN word_data
                     THEN word_data["last_attempt_was_failure"] ELSE FALSE
       IN IF interval = 0 THEN Frac(0, 1)
          ELSE LET overdue == 100 * Max2(0, hours_since_last)
                   bonus == IF failed THEN FAILED_WORD_PRIORITY_BONUS * interval ELSE 0
               IN Frac(Min2(10 * interval, overdue + bonus), 10 * interval)

(* progress_tracking.count_active_learning_words; the records have an      *)
(* attempts field wherever select_word calls it (verify_data has passed)   *)
RECURSIVE count_active_learning_words(_, _)
count_active_learning_words(progress_data, t) ==
  IF progress_data = <<>> THEN 0
  ELSE LET data == Head(progress_data).v
       IN (IF ~is_mastered(data, t) /\ data["attempts"] > 0 THEN 1 ELSE 0)
          + count_active_learning_words(Tail(progress_data), t)

----------------------------------------------------------------------------
(* file_operations.save_progress as the save callback: the local file is   *)
(* written first, outside any try; the Firebase sync follows inside a      *)
(* try/except.  localOk and remoteOk are the outcomes of the two writes.   *)
(* The result is the content of the file and of Firebase after the call    *)
(* and the exception that leaves it.                                       *)

save_progress(p, f, r, localOk, remoteOk) ==
  IF ~localOk THEN [file |-> f, remote |-> r, err |-> "OSError"]
  ELSE IF r.on /\ remoteOk
       THEN [file |-> p, remote |-> [r EXCEPT !.data = p], err |-> "none"]
       ELSE [file |-> p, remote |-> r, err |-> "none"]

(* progress_tracking.update_progress(word_id, success, progress,           *)
(* save_callback) at clock value t.                                        *)
update_progress(p, w, success, t, f, r, localOk, remoteOk) ==
  LET p0 == IF Has(p, w) THEN p ELSE SetItem(p, w, NewRecord(t))
      s == update_record(Get(p0, w), success, t)
      p1 == SetItem(p0, w, s.d)
  IN IF s.err # "none"
     THEN [progress |-> p1, file |-> f, remote |-> r, err |-> s.err]
     ELSE LET sv == save_progress(p1, f, r, localOk, remoteOk)
          IN [progress |-> p1, file |-> sv.file, remote |-> sv.remote,
              err |-> sv.err]

----------------------------------------------------------------------------
(* Records a progress store can hold when a session starts.  Times before  *)
(* the start of the session are negative.                                  *)

Attempt(t, ok) == [timestamp |-> t, success |-> ok]

(* after one success *)
SeededRecord ==
  [attempts |-> 1, successes |-> 1, interval |-> FIRST_SUCCESS_INTERVAL,
   last_attempt_was_failure |-> FALSE, last_seen |-> 0 - TicksPerHour,
   review_intervals |-> <<0>>, easiness_factor |-> INITIAL_EASINESS_FACTOR,
   attempt_history |-> <<Attempt(0 - TicksPerHour, TRUE)>>,
   first_introduced |-> 0 - TicksPerHour]

(* after success, failure, success *)
EstablishedRecord ==
  [attempts |-> 3, successes |-> 2, interval |-> SECOND_SUCCESS_INTERVAL,
   last_attempt_was_failure |-> FALSE, last_seen |-> 0 - TicksPerHour,
   review_intervals |-> <<0, TicksPerHour, TicksPerHour>>,
   easiness_factor |-> 24,
   attempt_history |-> <<Attempt(0 - 3 * TicksPerHour, TRUE),
                         Attempt(0 - 2 * TicksPerHour, FALSE),
                         Attempt(0 - TicksPerHour, TRUE)>>,
   first_introduced |-> 0 - 3 * TicksPerHour]

(* after a success, six failures and a success *)
StrugglingRecord ==
  [attempts |-> 8, successes |-> 2, interval |-> SECOND_SUCCESS_INTERVAL,
   last_attempt_was_failure |-> FALSE, last_seen |-> 0,
   review_intervals |-> <<0, 1, 1, 1, 1, 1, 1, 1>>,
   easiness_factor |-> MIN_EASINESS_FACTOR + EASINESS_INCREASE,
   attempt_history |-> <<Attempt(-7, TRUE), Attempt(-6, FALSE), Attempt(-5, FALSE),
                         Attempt(-4, FALSE), Attempt(-3, FALSE), Attempt(-2, FALSE),
                         Attempt(-1, FALSE), Attempt(0, TRUE)>>,
   first_introduced |-> -7]

(* a record written by the older recorder (vocabulary_learning/main.py    *)
(* 387-408): no interval, no easiness_factor, no attempt_history           *)
OldFormatRecord ==
  [attempts |-> 2, successes |-> 1, last_seen |-> 0 - TicksPerHour,
   review_intervals |-> <<0, TicksPerHour>>,
   last_attempt_was_failure |-> FALSE]

(* a record without last_seen, the case update_progress tests on line 84   *)
NoLastSeenRecord ==
  [attempts |-> 2, successes |-> 1, interval |-> SECOND_SUCCESS_INTERVAL,
   review_intervals |-> <<0, TicksPerHour>>, easiness_factor |-> 24,
   last_attempt_was_failure |-> FALSE]

(* after a failure and nine successes six minutes apart, the last one now *)
SeasonedRecord ==
  [attempts |-> 10, successes |-> 9,
   interval |-> (TicksPerHour \div 10) * INITIAL_EASINESS_FACTOR,
   last_attempt_was_failure |-> FALSE, last_seen |-> 0,
   review_intervals |-> [i \in 1..10 |-> IF i = 1 THEN 0 ELSE TicksPerHour \div 10],
   easiness_factor |-> INITIAL_EASINESS_FACTOR,
   attempt_history |-> [i \in 1..10 |->
                          Attempt((i - 10) * (TicksPerHour \div 10), i > 1)],
   first_introduced |-> 0 - 9 * (TicksPerHour \div 10)]

LoadedRecords ==
  {SeededRecord, EstablishedRecord, StrugglingRecord, OldFormatRecord,
   NoLastSeenRecord, SeasonedRecord}

Catalog(n) ==
  [columns |-> REQUIRED_VOCABULARY_COLUMNS,
   rows |-> [i \in 1..n |-> [japanese |-> i]]]

NoResult ==
  [op |-> "none", word |-> 0, success |-> FALSE, raised |-> "none",
   ret |-> "-", pre |-> <<>>, at |-> 0]

(* a ProgressService that has not been constructed *)
NoService ==
  [progress |-> <<>>, file |-> <<>>, remote |-> [on |-> FALSE, data |-> <<>>]]

IdlePractice(initFn) ==
  [pc |-> "idle", init_fn |-> initFn, word_id |-> 0, first_attempt |-> TRUE,
   calls |-> <<>>, answers |-> <<>>]

----------------------------------------------------------------------------
(* The recorder: update_progress called on a loaded or empty progress map. *)

Deltas == {0, 10 * TicksPerHour}

RecorderMaps ==
  {<<>>}
  \cup {<<[k |-> 1, v |-> d]>> : d \in LoadedRecords}
  \cup {<<[k |-> 2, v |-> EstablishedRecord]>>}
  \cup {<<[k |-> 2, v |-> EstablishedRecord], [k |-> 1, v |-> d]>> :
          d \in LoadedRecords}

Init ==
  /\ now = 0
  /\ vocabulary = Catalog(2)
  /\ progress \in RecorderMaps
  /\ file = progress
  /\ \E on \in BOOLEAN : remote = [on |-> on, data |-> progress]
  /\ result = NoResult
  /\ created = {}
  /\ pm = IdlePractice("none")
  /\ steps = 0
  /\ service = NoService

UpdateProgress(w, success, delta, localOk, remoteOk) ==
  /\ LET t == now + delta
         u == update_progress(progress, w, success, t, file, remote,
                              localOk, remoteOk)
     IN /\ now' = t
        /\ progress' = u.progress
        /\ file' = u.file
        /\ remote' = u.remote
        /\ result' = [op |-> "update_progress", word |-> w, success |-> success,
                      raised |-> u.err, ret |-> "-", pre |-> progress, at |-> t]
        /\ created' = IF Has(progress, w) THEN created ELSE created \cup {w}
  /\ steps' = steps + 1
  /\ UNCHANGED service
  /\ UNCHANGED <<vocabulary, pm>>

(* the outcomes of one save: both writes succeed, the Firebase sync fails,  *)
(* the local write fails                                                   *)
SaveOutcomes ==
  {[localOk |-> TRUE, remoteOk |-> TRUE]}
  \cup (IF remote.on THEN {[localOk |-> TRUE, remoteOk |-> FALSE]} ELSE {})
  \cup {[localOk |-> FALSE, remoteOk |-> TRUE]}

Next ==
  \E success \in BOOLEAN, delta \in Deltas, o \in SaveOutcomes :
    steps < MaxSteps /\ UpdateProgress(1, success, delta, o.localOk, o.remoteOk)

Spec == Init /\ [][Next]_vars

----------------------------------------------------------------------------
(* practice.verify_data: the first missing column or field raises          *)
(* ValueError.                                                             *)

verify_data(vocab, p) ==
  IF \E c \in REQUIRED_VOCABULARY_COLUMNS : c \notin vocab.columns
  THEN "ValueError"
  ELSE IF \E i \in DOMAIN p :
            \E f \in REQUIRED_PROGRESS_FIELDS : f \notin DOMAIN p[i].v
  THEN "ValueError"
  ELSE "none"

(* the word id of the catalog row with 0-based index i - 1:                *)
(* str(i - 1 + 1).zfill(WORD_ID_DIGITS); ids stand for their 6-digit       *)
(* strings, which are distinct for distinct ids below 10^6                 *)
WordId(i) == i

(* practice.select_word lines 311-320: catalog rows without a record *)
NewWords(vocab, p) == {i \in DOMAIN vocab.rows : ~Has(p, WordId(i))}

(* lines 323-329: the records that are not mastered, in dict order *)
Candidates(p, t) == {i \in DOMAIN p : ~is_mastered(p[i].v, t)}

Priority(p, i, active, t) == calculate_priority(p[i].v, active, t)

(* max_priority starts at 0.0; cands are the records the loop found not    *)
(* mastered                                                                *)
IsMaxPriority(p, cands, i, active, t) ==
  \A j \in cands :
    ~FracLess(Priority(p, i, active, t), Priority(p, j, active, t))

(* variant that takes the last record of highest priority, used to test    *)
(* the tie-break property                                                  *)
TopCandidate_last(p, cands, active, t) ==
  CHOOSE i \in cands :
    /\ IsMaxPriority(p, cands, i, active, t)
    /\ \A j \in cands :
         IsMaxPriority(p, cands, j, active, t) => i >= j

(* lines 356-357: sorted() is stable, so the first item of the sorted list *)
(* is the first record in dict order among those of highest priority       *)
TopCandidate(p, cands, active, t) ==
  CHOOSE i \in cands :
    /\ IsMaxPriority(p, cands, i, active, t)
    /\ \A j \in cands :
         IsMaxPriority(p, cands, j, active, t) => i <= j

(* variant that takes the last row, used to test the catalog-order property *)
Min_last(S) == CHOOSE x \in S : \A y \in S : x >= y

(* line 336, new_words.iloc[0], and line 141, index[0]: the first row *)
Min(S) == CHOOSE x \in S : \A y \in S : x <= y

(* the record initialize_progress_fn creates for a word without one;       *)
(* initFn is "none" when select_word is called without the function        *)
initialize_progress(initFn, p, w, t) ==
  IF initFn = "create" /\ ~Has(p, w) THEN SetItem(p, w, NewRecord(t)) ELSE p

(* variant that initialises the record of every recorded item selected,    *)
(* used to test that select_word leaves existing records alone             *)
EnsureRecord_always(initFn, p, w, t) ==
  IF initFn # "none" THEN SetItem(p, w, NewRecord(t)) ELSE p

(* lines 359-362: the item selected from priorities is initialised when it *)
(* has no record                                                           *)
EnsureRecord(initFn, p, w, t) ==
  IF ~Has(p, w) /\ initFn # "none" THEN initialize_progress(initFn, p, w, t)
  ELSE p

(* practice.select_word lines 305-419 at clock value t, given what its     *)
(* calls of is_mastered return: active_words_count is the value of         *)
(* count_active_learning_words (line 308) and cands the records the loop   *)
(* of lines 325-329 finds not mastered.  ret is "new" or "recorded" when a *)
(* row is returned (word is its id), "None" when None is returned and      *)
(* "raise" when an exception leaves the call.                              *)
select_word_given(vocab, p, initFn, t, cands, active_words_count) ==
  IF verify_data(vocab, p) # "none"
  THEN [progress |-> p, ret |-> "raise", word |-> 0, raised |-> "ValueError"]
  ELSE
  LET new_words == NewWords(vocab, p)
      new_word_priority == calculate_priority_new(active_words_count)
      new_beats_all ==
        /\ FracLess(Frac(0, 1), new_word_priority)
        /\ \A i \in cands :
             FracLess(Priority(p, i, active_words_count, t), new_word_priority)
  IN IF new_beats_all /\ new_words # {}
     THEN LET w == WordId(Min(new_words))
          IN [progress |-> initialize_progress(initFn, p, w, t),
              ret |-> "new", word |-> w, raised |-> "none"]
     ELSE IF cands # {}
     THEN LET w == p[TopCandidate(p, cands, active_words_count, t)].k
          IN IF w - 1 >= Len(vocab.rows)
             THEN [progress |-> p, ret |-> "raise", word |-> 0,
                   raised |-> "IndexError"]
             ELSE [progress |-> EnsureRecord(initFn, p, w, t),
                   ret |-> "recorded", word |-> w, raised |-> "none"]
     ELSE [progress |-> p, ret |-> "None", word |-> 0, raised |-> "none"]

(* practice.select_word with the success rates in exact arithmetic *)
select_word(vocab, p, initFn, t) ==
  select_word_given(vocab, p, initFn, t, Candidates(p, t),
                    count_active_learning_words(p, t))

----------------------------------------------------------------------------
(* select_word called on a loaded progress map (specification SpecSelect)  *)

(* a record created for a word that has not been answered yet *)
FreshRecord == NewRecord(0 - TicksPerHour)

(* after a success and a failure, the failure just now *)
FailedRecord ==
  [attempts |-> 2, successes |-> 1, interval |-> FIRST_SUCCESS_INTERVAL,
   last_attempt_was_failure |-> TRUE, last_seen |-> 0,
   review_intervals |-> <<0, TicksPerHour>>,
   easiness_factor |-> INITIAL_EASINESS_FACTOR - EASINESS_DECREASE,
   attempt_history |-> <<Attempt(0 - TicksPerHour, TRUE), Attempt(0, FALSE)>>,
   first_introduced |-> 0 - TicksPerHour]

(* after MASTERY_MIN_SUCCESSES successes an hour apart *)
MasteredRecord ==
  [attempts |-> MASTERY_MIN_SUCCESSES, successes |-> MASTERY_MIN_SUCCESSES,
   interval |-> TicksPerHour * INITIAL_EASINESS_FACTOR,
   last_attempt_was_failure |-> FALSE, last_seen |-> 0 - TicksPerHour,
   review_intervals |-> [i \in 1..MASTERY_MIN_SUCCESSES |-> IF i = 1 THEN 0 ELSE TicksPerHour],
   easiness_factor |-> INITIAL_EASINESS_FACTOR,
   attempt_history |-> [i \in 1..MASTERY_MIN_SUCCESSES |->
                          Attempt((i - 1 - MASTERY_MIN_SUCCESSES) * TicksPerHour, TRUE)],
   first_introduced |-> 0 - MASTERY_MIN_SUCCESSES * TicksPerHour]

SelectRecords ==
  {FreshRecord, SeededRecord, EstablishedRecord, FailedRecord, StrugglingRecord,
   MasteredRecord, OldFormatRecord, NoLastSeenRecord}

(* n further words, ids 3 .. n + 2, each seen an hour ago with a one-day    *)
(* interval                                                                *)
Fillers(n) == [i \in 1..n |-> [k |-> i + 2, v |-> EstablishedRecord]]

Entry(w, d) == <<[k |-> w, v |-> d]>>

FillerCounts == {0, MAX_ACTIVE_WORDS - 1, MAX_ACTIVE_WORDS, MAX_ACTIVE_WORDS + 1}

SelectMaps ==
  UNION {
    {Fillers(n), Fillers(n) \o Entry(1, a), Entry(1, a) \o Fillers(n),
     Entry(1, a) \o Entry(2, b) \o Fillers(n),
     Fillers(n) \o Entry(2, b) \o Entry(1, a)} :
    n \in FillerCounts, a \in SelectRecords, b \in SelectRecords}

SelectDeltas == {0, 10 * TicksPerHour, 24 * TicksPerHour}

InitFns == {"none", "create"}

InitSelect ==
  /\ now = 0
  /\ vocabulary = Catalog(MAX_ACTIVE_WORDS + 4)
  /\ progress \in SelectMaps
  /\ file = progress
  /\ remote = [on |-> FALSE, data |-> progress]
  /\ result = NoResult
  /\ created = {}
  /\ pm = IdlePractice("none")
  /\ steps = 0
  /\ service = NoService

SelectWord(delta, initFn) ==
  /\ LET t == now + delta
         r == select_word(vocabulary, progress, initFn, t)
     IN /\ now' = t
        /\ progress' = r.progress
        /\ result' = [op |-> "select_word", word |-> r.word, success |-> FALSE,
                      raised |-> r.raised, ret |-> r.ret, pre |-> progress,
                      at |-> t]
  /\ steps' = steps + 1
  /\ UNCHANGED service
  /\ UNCHANGED <<vocabulary, file, remote, created, pm>>

NextSelect ==
  \E delta \in SelectDeltas, initFn \in InitFns :
    steps < MaxSelects /\ SelectWord(delta, initFn)

SpecSelect == InitSelect /\ [][NextSelect]_vars

----------------------------------------------------------------------------
(* file_operations.load_progress followed by updates (specification        *)
(* SpecStore).  The local file and Firebase hold what an earlier session,  *)
(* possibly of an older version of the program, has saved.                 *)

(* lines 172-176: the defaults given to a record read from the local file *)
MigrateRecord(d) ==
  LET d1 == IF "review_intervals" \in DOMAIN d THEN d
            ELSE Put(d, "review_intervals", <<>>)
  IN IF "last_attempt_was_failure" \in DOMAIN d1 THEN d1
     ELSE Put(d1, "last_attempt_was_failure", FALSE)

(* load_progress(progress_file, progress_ref, console): remoteOk and       *)
(* localOk tell whether progress_ref.get() and reading the file succeed    *)
load_progress(f, r, remoteOk, localOk) ==
  IF r.on /\ remoteOk THEN r.data
  ELSE IF ~localOk THEN <<>>
  ELSE [i \in DOMAIN f |-> [k |-> f[i].k, v |-> MigrateRecord(f[i].v)]]

(* a record of the first version: counts and last_seen only *)
EarlyRecord ==
  [attempts |-> 2, successes |-> 1, last_seen |-> 0 - TicksPerHour]

(* a record with the scheduling fields, saved before attempt_history was   *)
(* recorded                                                                *)
NoHistoryRecord ==
  [attempts |-> 2, successes |-> 2, interval |-> SECOND_SUCCESS_INTERVAL,
   last_attempt_was_failure |-> FALSE, last_seen |-> 0 - TicksPerHour,
   review_intervals |-> <<0, TicksPerHour>>,
   easiness_factor |-> INITIAL_EASINESS_FACTOR]

StoredRecords ==
  {SeededRecord, EstablishedRecord, OldFormatRecord, EarlyRecord, NoHistoryRecord}

StoredMaps ==
  {<<>>}
  \cup {Entry(1, d) : d \in StoredRecords}
  \cup {Entry(2, EstablishedRecord) \o Entry(1, d) : d \in StoredRecords}

InitStore ==
  /\ now = 0
  /\ vocabulary = Catalog(2)
  /\ progress = <<>>
  /\ file \in StoredMaps
  /\ remote \in {[on |-> o, data |-> d] : o \in BOOLEAN, d \in {<<>>, file}}
  /\ result = NoResult
  /\ created = {}
  /\ pm = IdlePractice("none")
  /\ steps = 0
  /\ service = NoService

LoadProgress(remoteOk, localOk) ==
  /\ progress' = load_progress(file, remote, remoteOk, localOk)
  /\ result' = [NoResult EXCEPT !.op = "load_progress", !.pre = progress,
                                !.at = now]
  /\ created' = {}
  /\ steps' = steps + 1
  /\ UNCHANGED service
  /\ UNCHANGED <<now, vocabulary, file, remote, pm>>

NextStore ==
  \/ \E remoteOk \in BOOLEAN, localOk \in BOOLEAN :
       steps < MaxStoreSteps /\ LoadProgress(remoteOk, localOk)
  \/ \E success \in BOOLEAN, delta \in Deltas, o \in SaveOutcomes :
       /\ steps < MaxStoreSteps
       /\ UpdateProgress(1, success, delta, o.localOk, o.remoteOk)

SpecStore == InitStore /\ [][NextStore]_vars

----------------------------------------------------------------------------
(* is_mastered evaluated on a fixed record at later and later times        *)
(* (specification SpecMastery).  No attempt is recorded in between.        *)

(* a record with nf failures at time tf followed by ns successes at ts *)
HistoryRecord(nf, tf, ns, ts) ==
  [attempts |-> nf + ns, successes |-> ns,
   interval |-> IF ns = 0 THEN FIRST_SUCCESS_INTERVAL ELSE SECOND_SUCCESS_INTERVAL,
   last_attempt_was_failure |-> (ns = 0), last_seen |-> Max2(tf, ts),
   review_intervals |-> [i \in 1 .. nf + ns |-> 0],
   easiness_factor |-> MIN_EASINESS_FACTOR,
   attempt_history |-> [i \in 1 .. nf + ns |->
                          IF i <= nf THEN Attempt(tf, FALSE) ELSE Attempt(ts, TRUE)],
   first_introduced |-> Min2(tf, ts)]

(* a record with ns successes at time ts followed by nf failures at tf *)
LapsedRecord(ns, ts, nf, tf) ==
  [HistoryRecord(nf, tf, ns, ts) EXCEPT
     !.attempt_history = [i \in 1 .. nf + ns |->
                            IF i <= ns THEN Attempt(ts, TRUE) ELSE Attempt(tf, FALSE)],
     !.last_attempt_was_failure = TRUE,
     !.interval = FIRST_SUCCESS_INTERVAL]

(* Python's {} *)
EmptyRecord == [f \in {} |-> 0]

MasteryRecords ==
  {EmptyRecord, FreshRecord, SeededRecord, EstablishedRecord, MasteredRecord,
   SeasonedRecord,
   [NoHistoryRecord EXCEPT !.attempts = 6, !.successes = 6],
   HistoryRecord(2, 0, 5, 0),
   HistoryRecord(1, 0, 4, 0),
   HistoryRecord(5, 0 - 3 * HalfLifeTicks, 5, 0),
   HistoryRecord(5, 0 - 2 * HalfLifeTicks, 5, 0),
   LapsedRecord(6, 0 - HalfLifeTicks, 1, 0),
   LapsedRecord(6, 0, 1, 0),
   HistoryRecord(3, 0, 17, 0)}

(* two hours, one half-life, 400 days *)
MasteryDeltas == {2 * TicksPerHour, HalfLifeTicks, 400 * 24 * TicksPerHour}

(* the attempts of MasteryRecords are at most 3 half-lives old at time 0 *)
MaxShift == (MaxHalfLives - 3) * HalfLifeTicks - 1

InitMastery ==
  /\ now = 0
  /\ vocabulary = Catalog(1)
  /\ progress \in {Entry(1, d) : d \in MasteryRecords}
  /\ file = progress
  /\ remote = [on |-> FALSE, data |-> progress]
  /\ result = NoResult
  /\ created = {}
  /\ pm = IdlePractice("none")
  /\ steps = 0
  /\ service = NoService

(* is_mastered(progress[word]) at clock value now + delta; rate is the     *)
(* value calculate_weighted_success_rate returns in the call               *)
EvaluateMastery(delta, rate) ==
  /\ LET t == now + delta
         d == Get(progress, 1)
         verdict == MasteryVerdict(d, rate)
     IN /\ rate \in computed_rates(AttemptHistoryOf(d), t)
        /\ now' = t
        /\ result' = [op |-> "is_mastered", word |-> 1, success |-> verdict,
                      raised |-> "none",
                      ret |-> IF verdict THEN "True" ELSE "False",
                      pre |-> progress, at |-> t, rate |-> rate,
                      prev |-> IF result.op = "is_mastered" THEN result.ret
                               ELSE "-"]
  /\ steps' = steps + 1
  /\ UNCHANGED service
  /\ UNCHANGED <<vocabulary, progress, file, remote, created, pm>>

RateChoices ==
  UNION {computed_rates(AttemptHistoryOf(Get(progress, 1)), now + delta) :
           delta \in {0} \cup MasteryDeltas}

NextMastery ==
  \E delta \in {0} \cup MasteryDeltas, rate \in RateChoices :
    /\ steps < MaxEvaluations
    /\ now + delta <= MaxShift
    /\ EvaluateMastery(delta, rate)

SpecMastery == InitMastery /\ [][NextMastery]_vars

----------------------------------------------------------------------------
(* select_word called with an empty catalog (a DataFrame with the required *)
(* columns and no rows) and a progress map loaded from an earlier session  *)
(* (specification SpecEmptyCatalog)                                        *)

SmallMaps ==
  {<<>>}
  \cup {Entry(1, a) : a \in SelectRecords}
  \cup {Entry(1, a) \o Entry(2, b) : a \in SelectRecords, b \in SelectRecords}

InitEmptyCatalog ==
  /\ now = 0
  /\ vocabulary = Catalog(0)
  /\ progress \in SmallMaps
  /\ file = progress
  /\ remote = [on |-> FALSE, data |-> progress]
  /\ result = NoResult
  /\ created = {}
  /\ pm = IdlePractice("none")
  /\ steps = 0
  /\ service = NoService

SpecEmptyCatalog == InitEmptyCatalog /\ [][NextSelect]_vars

----------------------------------------------------------------------------
(* A session from an empty progress map: select_word picks an item, the    *)
(* answer to that item is recorded by update_progress, and so on           *)
(* (specification SpecSession).  The clock may jump between the selection  *)
(* and the answer.                                                         *)

SessionJump == 12 * TicksPerHour

SessionDeltas == {0, SessionJump}

RECURSIVE Failures(_)
Failures(p) ==
  IF p = <<>> THEN 0
  ELSE (Head(p).v["attempts"] - Head(p).v["successes"]) + Failures(Tail(p))

InitSession ==
  /\ now = 0
  /\ vocabulary = Catalog(MAX_ACTIVE_WORDS + 4)
  /\ progress = <<>>
  /\ file = progress
  /\ remote = [on |-> FALSE, data |-> progress]
  /\ result = NoResult
  /\ created = {}
  /\ pm \in {IdlePractice(initFn) : initFn \in InitFns}
  /\ steps = 0
  /\ service = NoService

NextSession ==
  \/ /\ steps < MaxSessionSteps
     /\ result.op # "select_word"
     /\ SelectWord(0, pm.init_fn)
  \/ \E success \in BOOLEAN, delta \in SessionDeltas :
       /\ steps < MaxSessionSteps
       /\ result.op = "select_word"
       /\ result.ret \in {"new", "recorded"}
       /\ now + delta <= MaxJumps * SessionJump
       /\ success \/ Failures(progress) < MaxFailures
       /\ UpdateProgress(result.word, success, delta, TRUE, TRUE)

SpecSession == InitSession /\ [][NextSession]_vars

----------------------------------------------------------------------------
(* practice.practice_mode (specification SpecPractice).  pm.pc is "idle"   *)
(* at the top of the outer loop, "asking" at the input prompt and "done"   *)
(* once practice_mode has been left.  pm.answers and pm.calls are the      *)
(* answers given to the word presented last and the calls of               *)
(* update_progress_fn made for it.  update_progress_fn is update_progress  *)
(* on the session's progress map, save_progress_fn is save_progress.       *)

(* lines 141-142: the id of the first catalog row with the word's japanese *)
PracticeWordId(vocab, w) ==
  WordId(Min({i \in DOMAIN vocab.rows :
                vocab.rows[i].japanese = vocab.rows[w].japanese}))

(* lines 121-146: select a word, leave the loop on None *)
PresentWord(delta) ==
  /\ pm.pc = "idle"
  /\ LET t == now + delta
         r == select_word(vocabulary, progress, pm.init_fn, t)
     IN /\ now' = t
        /\ progress' = r.progress
        /\ result' = [op |-> "select_word", word |-> r.word, success |-> FALSE,
                      raised |-> r.raised, ret |-> r.ret, pre |-> progress,
                      at |-> t]
        /\ pm' = IF r.ret \in {"new", "recorded"}
                 THEN [pm EXCEPT !.pc = "asking",
                                 !.word_id = PracticeWordId(vocabulary, r.word),
                                 !.first_attempt = TRUE,
                                 !.calls = <<>>, !.answers = <<>>]
                 ELSE [pm EXCEPT !.pc = "done"]
  /\ steps' = steps + 1
  /\ UNCHANGED service
  /\ UNCHANGED <<vocabulary, file, remote, created>>

(* whether the branch of the answer calls update_progress_fn: lines 191-194 *)
(* for ":d", 218-220 with progress_helpers lines 18-19 for a correct       *)
(* answer, 232-235 for a wrong one                                         *)
CallsUpdate(kind) ==
  CASE kind = ":d" -> pm.first_attempt
    [] kind = "correct" -> pm.first_attempt
    [] kind = "wrong" -> pm.first_attempt /\ Has(progress, pm.word_id)

(* lines 159-255: one answer typed at the prompt *)
Answer(kind, delta) ==
  /\ pm.pc = "asking"
  /\ LET t == now + delta
         w == pm.word_id
         success == kind = "correct"
         u == IF CallsUpdate(kind)
              THEN update_progress(progress, w, success, t, file, remote, TRUE, TRUE)
              ELSE [progress |-> progress, file |-> file, remote |-> remote,
                    err |-> "none"]
     IN /\ now' = t
        /\ progress' = u.progress
        /\ file' = u.file
        /\ remote' = u.remote
        /\ result' = IF CallsUpdate(kind)
                     THEN [op |-> "update_progress", word |-> w,
                           success |-> success, raised |-> u.err, ret |-> "-",
                           pre |-> progress, at |-> t]
                     ELSE result
        /\ created' = IF CallsUpdate(kind) /\ ~Has(progress, w)
                      THEN created \cup {w} ELSE created
        /\ pm' = [pm EXCEPT
                   !.pc = IF u.err # "none" THEN "done"
                          ELSE IF kind = "correct" THEN "idle" ELSE "asking",
                   !.first_attempt = IF kind = "correct" THEN @ ELSE FALSE,
                   !.calls = IF CallsUpdate(kind)
                             THEN Append(@, [word |-> w, success |-> success])
                             ELSE @,
                   !.answers = Append(@, kind)]
  /\ steps' = steps + 1
  /\ UNCHANGED service
  /\ UNCHANGED vocabulary

(* lines 162-165: ":q" saves and exits, ":m" returns to the menu *)
Leave(cmd) ==
  /\ pm.pc = "asking"
  /\ LET sv == IF cmd = ":q" THEN save_progress(progress, file, remote, TRUE, TRUE)
               ELSE [file |-> file, remote |-> remote, err |-> "none"]
     IN /\ file' = sv.file
        /\ remote' = sv.remote
  /\ pm' = [pm EXCEPT !.pc = "done"]
  /\ steps' = steps + 1
  /\ UNCHANGED service
  /\ UNCHANGED <<now, vocabulary, progress, result, created>>

InitPractice ==
  /\ now = 0
  /\ vocabulary = Catalog(MAX_ACTIVE_WORDS + 4)
  /\ progress \in {<<>>, Entry(1, SeededRecord), Entry(1, EstablishedRecord),
                    Entry(1, MasteredRecord)}
  /\ file = progress
  /\ remote = [on |-> FALSE, data |-> progress]
  /\ result = NoResult
  /\ created = {}
  /\ pm \in {IdlePractice(initFn) : initFn \in InitFns}
  /\ steps = 0
  /\ service = NoService

NextPractice ==
  \/ \E delta \in SessionDeltas :
       /\ steps < MaxPracticeSteps
       /\ now + delta <= MaxJumps * SessionJump
       /\ PresentWord(delta)
  \/ \E kind \in {"correct", "wrong", ":d"} :
       steps < MaxPracticeSteps /\ Answer(kind, 0)
  \/ \E cmd \in {":q", ":m"} :
       steps < MaxPracticeSteps /\ Leave(cmd)

SpecPractice == InitPractice /\ [][NextPractice]_vars

----------------------------------------------------------------------------
(* practice_mode on a catalog in which two rows have the same japanese     *)
(* text (specification SpecHomonyms)                                       *)

(* rows 1 and 2 share their text *)
HomonymCatalog ==
  [columns |-> REQUIRED_VOCABULARY_COLUMNS,
   rows |-> <<[japanese |-> 1], [japanese |-> 1], [japanese |-> 3]>>]

InitHomonyms ==
  /\ now = 0
  /\ vocabulary = HomonymCatalog
  /\ progress \in {<<>>, Entry(1, SeededRecord), Entry(1, MasteredRecord),
                    Entry(1, MasteredRecord) \o Entry(2, SeededRecord)}
  /\ file = progress
  /\ remote = [on |-> FALSE, data |-> progress]
  /\ result = NoResult
  /\ created = {}
  /\ pm \in {IdlePractice(initFn) : initFn \in InitFns}
  /\ steps = 0
  /\ service = NoService

SpecHomonyms == InitHomonyms /\ [][NextPractice]_vars

----------------------------------------------------------------------------
(* select_word with the success rates as the floating-point arithmetic     *)
(* computes them, followed by the recording of the answer (specification   *)
(* SpecComputed).  Each call of is_mastered reads the clock and computes   *)
(* the rate again, so the pass of count_active_learning_words and the loop *)
(* of select_word get their verdicts separately.                           *)

(* the values is_mastered can return for record d at clock value t *)
Verdicts(d, t) ==
  {MasteryVerdict(d, r) : r \in computed_rates(AttemptHistoryOf(d), t)}

(* the sets of records one pass of is_mastered over the map can find not   *)
(* mastered                                                                *)
CandidateSets(p, t) ==
  {N \in SUBSET DOMAIN p :
     \A i \in DOMAIN p : (i \notin N) \in Verdicts(p[i].v, t)}

(* 17 successes of 20 attempts and 16 of 19, all recorded at time 0 *)
ThresholdRecord == HistoryRecord(3, 0, 17, 0)

AlmostRecord == HistoryRecord(3, 0, 16, 0)

ComputedRecords == {ThresholdRecord, AlmostRecord, EstablishedRecord, MasteredRecord}

ComputedMaps ==
  {Entry(1, a) : a \in ComputedRecords}
  \cup {Entry(1, a) \o Entry(2, b) : a \in ComputedRecords, b \in ComputedRecords}

ComputedDeltas == {0, TicksPerHour, 2 * TicksPerHour}

InitComputed ==
  /\ now = 0
  /\ vocabulary = Catalog(2)
  /\ progress \in ComputedMaps
  /\ file = progress
  /\ remote = [on |-> FALSE, data |-> progress]
  /\ result = NoResult
  /\ created = {}
  /\ pm = IdlePractice("none")
  /\ steps = 0
  /\ service = NoService

(* select_word at clock value now + delta; counted and cands are the       *)
(* records found not mastered by count_active_learning_words and by the    *)
(* loop of lines 325-329.  The result keeps the ids the loop found         *)
(* mastered, and those found mastered by the calls since the last answer.  *)
SelectWordComputed(delta, initFn, counted, cands) ==
  /\ LET t == now + delta
         active_words_count ==
           Cardinality({i \in counted : progress[i].v["attempts"] > 0})
         r == select_word_given(vocabulary, progress, initFn, t, cands,
                                active_words_count)
     IN /\ now' = t
        /\ progress' = r.progress
        /\ result' = [op |-> "select_word", word |-> r.word, success |-> FALSE,
                      raised |-> r.raised, ret |-> r.ret, pre |-> progress,
                      at |-> t,
                      mastered |-> {progress[i].k : i \in DOMAIN progress \ cands},
                      prev_mastered |->
                        IF result.op = "select_word"
                        THEN result.mastered \cup result.prev_mastered
                        ELSE {}]
  /\ steps' = steps + 1
  /\ UNCHANGED service
  /\ UNCHANGED <<vocabulary, file, remote, created, pm>>

NextComputed ==
  \/ /\ steps < MaxComputedSteps
     /\ ~(result.op = "select_word" /\ result.ret \in {"new", "recorded"})
     /\ \E delta \in ComputedDeltas :
          \E counted \in CandidateSets(progress, now + delta),
             cands \in CandidateSets(progress, now + delta) :
            SelectWordComputed(delta, "create", counted, cands)
  \/ /\ steps < MaxComputedSteps
     /\ result.op = "select_word"
     /\ result.ret \in {"new", "recorded"}
     /\ \E success \in BOOLEAN :
          UpdateProgress(result.word, success, 0, TRUE, TRUE)

SpecComputed == InitComputed /\ [][NextComputed]_vars

----------------------------------------------------------------------------
(* Repeated rounds of select_word and update_progress on a map whose items *)
(* are all due, the clock advancing before each selection (specification   *)
(* SpecRounds).  A round is always possible, so rounds keep being taken.   *)

(* 36 seconds and one hour *)
RoundDeltas == {TicksPerHour \div 100, TicksPerHour}

InitRounds ==
  /\ now = 0
  /\ vocabulary = Catalog(2)
  /\ progress \in {Entry(1, a) \o Entry(2, b) : a, b \in {SeededRecord, EstablishedRecord}}
                  \cup {Entry(2, SeededRecord) \o Entry(1, SeededRecord)}
  /\ file = progress
  /\ remote = [on |-> FALSE, data |-> progress]
  /\ result = NoResult
  /\ created = {}
  /\ pm = IdlePractice("none")
  /\ steps = 0
  /\ service = NoService

NextRounds ==
  \/ /\ steps < MaxRoundSteps
     /\ result.op # "select_word"
     /\ \E delta \in RoundDeltas : SelectWord(delta, "none")
  \/ /\ steps < MaxRoundSteps
     /\ result.op = "select_word"
     /\ result.ret \in {"new", "recorded"}
     /\ \E success \in BOOLEAN :
          UpdateProgress(result.word, success, 0, TRUE, TRUE)

(* a round step is possible: select_word and update_progress always       *)
(* return or raise                                                         *)
RoundPossible ==
  /\ steps < MaxRoundSteps
  /\ result.op = "select_word" => result.ret \in {"new", "recorded"}

(* every step of NextRounds counts one step, so this is the step of        *)
(* NextRounds seen on the step counter                                     *)
TakeRoundStep == RoundPossible /\ steps' = steps + 1

SpecRounds == InitRounds /\ [][NextRounds]_vars /\ WF_steps(TakeRoundStep)

----------------------------------------------------------------------------
(* services/progress_service.py: ProgressService.update_progress, and the  *)
(* two recorders run side by side on the same record with the same         *)
(* outcomes and attempt times (specification SpecRecorders).  service      *)
(* holds the fields of the ProgressService: its progress map, the content  *)
(* of its progress file and its Firebase reference.                        *)

(* lines 99-108: the record the service creates for a word that has none *)
ServiceNewRecord(t) ==
  [attempts |-> 0, successes |-> 0, last_seen |-> t,
   review_intervals |-> <<>>, last_attempt_was_failure |-> FALSE,
   easiness_factor |-> INITIAL_EASINESS_FACTOR, interval |-> 0,
   attempt_history |-> <<>>]

(* lines 109-117: a record without interval gets interval 0 and defaults   *)
(* for easiness_factor and last_attempt_was_failure                        *)
ServiceAddInterval(d) ==
  IF "interval" \in DOMAIN d THEN d
  ELSE LET d1 == Put(d, "interval", 0)
           d2 == IF "easiness_factor" \in DOMAIN d1 THEN d1
                 ELSE Put(d1, "easiness_factor", INITIAL_EASINESS_FACTOR)
       IN IF "last_attempt_was_failure" \in DOMAIN d2 THEN d2
          ELSE Put(d2, "last_attempt_was_failure", FALSE)

(* lines 125-128: the last MAX_REVIEW_INTERVALS_HISTORY entries *)
LastIntervals(review_intervals) ==
  IF Len(review_intervals) > MAX_REVIEW_INTERVALS_HISTORY
  THEN SubSeq(review_intervals,
              Len(review_intervals) - MAX_REVIEW_INTERVALS_HISTORY + 1,
              Len(review_intervals))
  ELSE review_intervals

(* lines 120-128: elapsed time, appended to review_intervals and trimmed *)
ServiceRecordElapsed(s, t) ==
  IF "last_seen" \notin DOMAIN s.d THEN [s EXCEPT !.err = "KeyError"]
  ELSE LET h == t - s.d["last_seen"] IN
       IF "review_intervals" \notin DOMAIN s.d
       THEN [s EXCEPT !.hsl = h, !.err = "KeyError"]
       ELSE [s EXCEPT !.hsl = h,
                      !.d = Put(s.d, "review_intervals",
                                LastIntervals(Append(s.d["review_intervals"], h)))]

(* line 130: attempts += 1 *)
ServiceCountAttempt(s) ==
  IF s.err # "none" THEN s
  ELSE IF "attempts" \notin DOMAIN s.d THEN [s EXCEPT !.err = "KeyError"]
  ELSE [s EXCEPT !.d = Put(s.d, "attempts", s.d["attempts"] + 1)]

(* lines 139-161: a success counts, sets the interval from the elapsed     *)
(* time and raises the easiness factor                                     *)
ServiceApplySuccess(s) ==
  IF "successes" \notin DOMAIN s.d THEN [s EXCEPT !.err = "KeyError"]
  ELSE LET d1 == Put(s.d, "successes", s.d["successes"] + 1)
           interval == d1["interval"]
       IN IF interval # 0 /\ interval # FIRST_SUCCESS_INTERVAL
             /\ "easiness_factor" \notin DOMAIN d1
          THEN [s EXCEPT !.d = d1, !.err = "KeyError"]
          ELSE
          LET d2 == Put(d1, "interval",
                        IF interval = 0 THEN FIRST_SUCCESS_INTERVAL
                        ELSE IF interval = FIRST_SUCCESS_INTERVAL
                        THEN SECOND_SUCCESS_INTERVAL
                        ELSE s.hsl * d1["easiness_factor"])
          IN IF "easiness_factor" \notin DOMAIN d2
             THEN [s EXCEPT !.d = d2, !.err = "KeyError"]
             ELSE [s EXCEPT !.d =
                     Put(Put(d2, "easiness_factor",
                             Min2(INITIAL_EASINESS_FACTOR,
                                  d2["easiness_factor"] + EASINESS_INCREASE)),
                         "last_attempt_was_failure", FALSE)]

(* lines 162-168: a failure resets the interval and lowers the easiness    *)
(* factor                                                                  *)
ServiceApplyFailure(s) ==
  LET d1 == Put(s.d, "interval", FIRST_SUCCESS_INTERVAL) IN
  IF "easiness_factor" \notin DOMAIN d1
  THEN [s EXCEPT !.d = d1, !.err = "KeyError"]
  ELSE [s EXCEPT !.d =
          Put(Put(d1, "easiness_factor",
                  Max2(MIN_EASINESS_FACTOR,
                       d1["easiness_factor"] - EASINESS_DECREASE)),
              "last_attempt_was_failure", TRUE)]

(* lines 139-168 *)
ServiceApplyOutcome(s, success) ==
  IF s.err # "none" THEN s
  ELSE IF success THEN ServiceApplySuccess(s) ELSE ServiceApplyFailure(s)

(* line 170 *)
ServiceMarkSeen(s, t) ==
  IF s.err # "none" THEN s ELSE [s EXCEPT !.d = Put(s.d, "last_seen", t)]

(* lines 109-170 on one record *)
service_update_record(d, success, t) ==
  ServiceMarkSeen(
    ServiceApplyOutcome(
      AppendHistory(
        ServiceCountAttempt(
          ServiceRecordElapsed([d |-> ServiceAddInterval(d), err |-> "none",
                                hsl |-> 0, bound |-> TRUE], t)),
        success, t),
      success),
    t)

(* ProgressService.save_progress, lines 74-89: the local file is written   *)
(* outside any try, the Firebase write inside one                          *)
service_save_progress(sv, localOk, remoteOk) ==
  save_progress(sv.progress, sv.file, sv.remote, localOk, remoteOk)

(* ProgressService.update_progress(word_id, success) at clock value t *)
service_update_progress(sv, w, success, t, localOk, remoteOk) ==
  LET p0 == IF Has(sv.progress, w) THEN sv.progress
            ELSE SetItem(sv.progress, w, ServiceNewRecord(t))
      s == service_update_record(Get(p0, w), success, t)
      p1 == SetItem(p0, w, s.d)
      sv1 == [sv EXCEPT !.progress = p1]
  IN IF s.err # "none" THEN [service |-> sv1, err |-> s.err]
     ELSE LET saved == service_save_progress(sv1, localOk, remoteOk)
          IN [service |-> [sv1 EXCEPT !.file = saved.file,
                                      !.remote = saved.remote],
              err |-> saved.err]

RecordersMaps ==
  {<<>>}
  \cup {Entry(1, d) : d \in LoadedRecords \cup {FailedRecord, NoHistoryRecord}}

InitRecorders ==
  /\ now = 0
  /\ vocabulary = Catalog(2)
  /\ progress \in RecordersMaps
  /\ file = progress
  /\ remote = [on |-> FALSE, data |-> progress]
  /\ result = NoResult
  /\ created = {}
  /\ pm = IdlePractice("none")
  /\ steps = 0
  /\ service = [progress |-> progress, file |-> progress,
                remote |-> [on |-> FALSE, data |-> progress]]

(* the service records the outcome the core recorder has just recorded,    *)
(* with the same attempt time                                              *)
ServiceUpdateProgress(w, localOk, remoteOk) ==
  /\ result.op = "update_progress"
  /\ LET u == service_update_progress(service, w, result.success, now,
                                      localOk, remoteOk)
     IN /\ service' = u.service
        /\ result' = [op |-> "service_update_progress", word |-> w,
                      success |-> result.success, raised |-> u.err,
                      ret |-> "-", pre |-> service.progress, at |-> now,
                      core_raised |-> result.raised]
  /\ steps' = steps + 1
  /\ UNCHANGED <<now, vocabulary, progress, file, remote, created, pm>>

NextRecorders ==
  \/ /\ steps < MaxRecorderSteps
     /\ result.op # "update_progress"
     /\ \E success \in BOOLEAN, delta \in Deltas :
          UpdateProgress(1, success, delta, TRUE, TRUE)
  \/ /\ steps < MaxRecorderSteps
     /\ \E localOk \in BOOLEAN : ServiceUpdateProgress(1, localOk, TRUE)

SpecRecorders == InitRecorders /\ [][NextRecorders]_vars

----------------------------------------------------------------------------
(* Properties of the recorder (specification Spec)                         *)

Updated == result.op = "update_progress"

HadRecord == Has(result.pre, result.word)

Before == Get(result.pre, result.word)

After == Get(progress, result.word)

(* C1: update_progress(word, success=False) on a word without a record or  *)
(* with a record that has any prior interval leaves the word's interval    *)
(* equal to FIRST_SUCCESS_INTERVAL.                                        *)
C1_FailureResetsInterval ==
  (Updated /\ ~result.success
     /\ (~HadRecord \/ "interval" \in DOMAIN Before))
  => After["interval"] = FIRST_SUCCESS_INTERVAL

(* a failure has been recorded on a record whose interval was one day *)
C1_Witness ==
  /\ Updated /\ ~result.success /\ HadRecord
  /\ "interval" \in DOMAIN Before
  /\ Before["interval"] = SECOND_SUCCESS_INTERVAL
  /\ After["interval"] = FIRST_SUCCESS_INTERVAL

(* the record of a word created by update_progress in this run, all of     *)
(* whose n attempts were successes                                         *)
AllSuccesses(d, n) == d["attempts"] = n /\ d["successes"] = n

Elapsed3(d) == d["attempt_history"][3].timestamp - d["attempt_history"][2].timestamp

(* C2 as stated: from no record, three consecutive successes leave         *)
(* interval FIRST_SUCCESS_INTERVAL, then SECOND_SUCCESS_INTERVAL, then     *)
(* (hours elapsed between the second and third attempt) x easiness_factor, *)
(* for every choice of attempt times.                                      *)
C2_AsStated ==
  \A w \in created :
    LET d == Get(progress, w) IN
    /\ AllSuccesses(d, 1) => d["interval"] = FIRST_SUCCESS_INTERVAL
    /\ AllSuccesses(d, 2) => d["interval"] = SECOND_SUCCESS_INTERVAL
    /\ AllSuccesses(d, 3) => d["interval"] = Elapsed3(d) * d["easiness_factor"]

(* C2 amended: the third interval is elapsed x easiness_factor when the    *)
(* elapsed time is positive, and SECOND_SUCCESS_INTERVAL x easiness_factor *)
(* (60 hours) when the second and third attempt carry the same time.       *)
C2_IntervalProgression ==
  \A w \in created :
    LET d == Get(progress, w) IN
    /\ AllSuccesses(d, 1) => d["interval"] = FIRST_SUCCESS_INTERVAL
    /\ AllSuccesses(d, 2) => d["interval"] = SECOND_SUCCESS_INTERVAL
    /\ AllSuccesses(d, 3) =>
         d["interval"] = IF Elapsed3(d) > 0
                         THEN Elapsed3(d) * d["easiness_factor"]
                         ELSE (SECOND_SUCCESS_INTERVAL * d["easiness_factor"]) \div 10

(* three successes in a row from no record, the third ten hours after the  *)
(* second                                                                  *)
C2_Witness ==
  \E w \in created :
    LET d == Get(progress, w) IN
    /\ AllSuccesses(d, 3)
    /\ Elapsed3(d) = 10 * TicksPerHour
    /\ d["interval"] = 10 * TicksPerHour * INITIAL_EASINESS_FACTOR

(* C3: the easiness factor of a record stays within                        *)
(* [MIN_EASINESS_FACTOR, INITIAL_EASINESS_FACTOR]; a failure lowers it by  *)
(* EASINESS_DECREASE but never below the minimum, a success raises it by   *)
(* EASINESS_INCREASE but never above the initial value.                    *)
C3_EasinessBounds ==
  /\ \A i \in DOMAIN progress :
       "easiness_factor" \in DOMAIN progress[i].v =>
         /\ progress[i].v["easiness_factor"] >= MIN_EASINESS_FACTOR
         /\ progress[i].v["easiness_factor"] <= INITIAL_EASINESS_FACTOR
  /\ (Updated /\ result.raised \in {"none", "OSError"} /\ HadRecord)
     => After["easiness_factor"] =
          IF result.success
          THEN Min2(Before["easiness_factor"] + EASINESS_INCREASE,
                    INITIAL_EASINESS_FACTOR)
          ELSE Max2(Before["easiness_factor"] - EASINESS_DECREASE,
                    MIN_EASINESS_FACTOR)

(* a failure on a record one step above the minimum has been floored at    *)
(* the minimum                                                             *)
C3_Witness ==
  /\ Updated /\ ~result.success /\ HadRecord
  /\ "easiness_factor" \in DOMAIN Before
  /\ Before["easiness_factor"] = MIN_EASINESS_FACTOR + EASINESS_INCREASE
  /\ After["easiness_factor"] = MIN_EASINESS_FACTOR

(* C8: update_progress is atomic on every record it can be called on,      *)
(* records loaded from older data included: either all of its changes are  *)
(* applied, or the call fails while recording and the record is exactly as *)
(* it was before the call.                                                 *)
C8_Atomic ==
  (Updated /\ HadRecord /\ result.raised \notin {"none", "OSError"})
  => After = Before

(* C9: a failure of the save step never propagates to the caller of        *)
(* update_progress, and the in-memory map keeps the recorded attempt.      *)
C9_SaveFailureContained ==
  Updated =>
    /\ result.raised # "OSError"
    /\ (result.raised = "none" /\ HadRecord)
         => After["attempts"] = Before["attempts"] + 1

----------------------------------------------------------------------------
(* Properties of select_word (specification SpecSelect)                    *)

Selected == result.op = "select_word"

ReturnedItem == result.ret \in {"new", "recorded"}

(* the number of active items in the map select_word was called with *)
ActiveAtCall == count_active_learning_words(result.pre, result.at)

Malformed(p) ==
  \E i \in DOMAIN p :
    \E f \in {"attempts", "successes", "interval", "last_attempt_was_failure",
              "last_seen", "review_intervals", "easiness_factor"} :
      f \notin DOMAIN p[i].v

(* hours since last_seen >= interval > 0, for a record that is not mastered *)
Due(d, t) ==
  /\ d["interval"] > 0
  /\ 10 * (t - d["last_seen"]) >= d["interval"]
  /\ ~is_mastered(d, t)

SomeDue(p, t) == \E i \in DOMAIN p : Due(p[i].v, t)

(* C4: with MAX_ACTIVE_WORDS or more active items the new-item priority is *)
(* 0 and select_word never returns an item that has no progress record,    *)
(* whatever rows the catalog has.                                          *)
C4_NoNewAtCapacity ==
  /\ \A c \in MAX_ACTIVE_WORDS .. MAX_ACTIVE_WORDS + 4 :
        FracEq(calculate_priority_new(c), Frac(0, 1))
  /\ (Selected /\ ActiveAtCall >= MAX_ACTIVE_WORDS)
        => ~(ReturnedItem /\ ~Has(result.pre, result.word))

C4_Witness ==
  /\ Selected
  /\ ActiveAtCall = MAX_ACTIVE_WORDS
  /\ NewWords(vocabulary, result.pre) # {}
  /\ result.ret = "recorded"
  /\ Has(result.pre, result.word)

(* C6: when a recorded item that is not mastered is due, select_word on a  *)
(* map whose records all have the required fields returns a recorded item, *)
(* not a new one, also below MAX_ACTIVE_WORDS with unrecorded rows left.   *)
C6_DueBeforeNew ==
  (Selected /\ ~Malformed(result.pre) /\ SomeDue(result.pre, result.at))
    => (result.ret = "recorded" /\ Has(result.pre, result.word))

C6_Witness ==
  /\ Selected
  /\ ~Malformed(result.pre)
  /\ SomeDue(result.pre, result.at)
  /\ ActiveAtCall < MAX_ACTIVE_WORDS
  /\ NewWords(vocabulary, result.pre) # {}
  /\ result.ret = "recorded"

(* C10: select_word on a map with a record lacking a required field raises *)
(* ValueError: it returns neither None nor an item and leaves the progress *)
(* map as it was, with no new record initialised.                          *)
C10_MalformedRaises ==
  (Selected /\ Malformed(result.pre))
    => /\ result.ret = "raise"
       /\ result.raised = "ValueError"
       /\ progress = result.pre

C10_Witness ==
  /\ Selected
  /\ Malformed(result.pre)
  /\ ActiveAtCall < MAX_ACTIVE_WORDS
  /\ NewWords(vocabulary, result.pre) # {}
  /\ result.ret = "raise"
  /\ progress = result.pre

----------------------------------------------------------------------------
(* Properties of a session (specification SpecSession)                     *)

RECURSIVE CountMastered(_, _)
CountMastered(p, t) ==
  IF p = <<>> THEN 0
  ELSE (IF is_mastered(Head(p).v, t) THEN 1 ELSE 0) + CountMastered(Tail(p), t)

----------------------------------------------------------------------------
(* Properties of practice_mode (specification SpecPractice)                *)

(* C7: once the word presented has been answered, update_progress_fn has   *)
(* been called exactly once for it, with the outcome of the first answer   *)
(* (success only for a correct one); retries add no call.  With or without *)
(* a progress record for the word.                                         *)
C7_OncePerPresentation ==
  (pm.answers # <<>>)
    => /\ Len(pm.calls) = 1
       /\ pm.calls[1] = [word |-> pm.word_id,
                         success |-> (pm.answers[1] = "correct")]

----------------------------------------------------------------------------
(* Further properties of select_word (specifications SpecSelect and        *)
(* SpecEmptyCatalog)                                                       *)

(* a record that is not mastered with hours since last_seen >= interval *)
Elapsed(d, t) ==
  /\ 10 * (t - d["last_seen"]) >= d["interval"]
  /\ ~is_mastered(d, t)

SomeElapsed(p, t) == \E i \in DOMAIN p : Elapsed(p[i].v, t)

(* C11: select_word returns None whenever no recorded item that is not     *)
(* mastered is due and no new item can be introduced (MAX_ACTIVE_WORDS or  *)
(* more active items, or no catalog row without a record).                 *)
C11_NoneWhenNothingQualifies ==
  (/\ Selected
   /\ ~Malformed(result.pre)
   /\ ~SomeElapsed(result.pre, result.at)
   /\ \/ ActiveAtCall >= MAX_ACTIVE_WORDS
      \/ NewWords(vocabulary, result.pre) = {})
    => result.ret = "None"

(* C12: on an empty catalog select_word returns None for every progress    *)
(* map whose records have the required fields, also one that holds records *)
(* of items that are not mastered; it neither raises nor returns an item.  *)
C12_EmptyCatalogNone ==
  (Selected /\ Len(vocabulary.rows) = 0 /\ ~Malformed(result.pre))
    => (result.ret = "None" /\ result.raised = "none")

(* C13: a new item returned by select_word is the first catalog row, in    *)
(* catalog order, that has no progress record.                             *)
C13_FirstUnrecorded ==
  (Selected /\ result.ret = "new")
    => /\ result.word \in DOMAIN vocabulary.rows
       /\ ~Has(result.pre, result.word)
       /\ \A i \in DOMAIN vocabulary.rows :
            i < result.word => Has(result.pre, WordId(i))

(* the first row is recorded, later rows too, and the gap is returned *)
C13_Witness ==
  /\ Selected
  /\ result.ret = "new"
  /\ result.word = 2
  /\ Has(result.pre, 1)
  /\ Has(result.pre, 3)

(* the position in the map of the record of the item returned *)
ReturnedPos == IndexOf(result.pre, result.word)

PriorityAtCall(i) == Priority(result.pre, i, ActiveAtCall, result.at)

ReturnedIsHighest ==
  \A j \in Candidates(result.pre, result.at) :
    ~FracLess(PriorityAtCall(ReturnedPos), PriorityAtCall(j))

(* C14 as stated: a recorded item returned has the highest priority among  *)
(* the recorded items that are not mastered, and among those tied at that  *)
(* priority it is the first in catalog order, whatever the order of the    *)
(* records in the map.                                                     *)
C14_AsStated ==
  (Selected /\ result.ret = "recorded")
    => /\ ReturnedIsHighest
       /\ \A j \in Candidates(result.pre, result.at) :
            FracEq(PriorityAtCall(j), PriorityAtCall(ReturnedPos))
              => result.word <= result.pre[j].k

(* C14: a recorded item returned has the highest priority among the        *)
(* recorded items that are not mastered, and among those tied at that      *)
(* priority it is the one whose record comes first in the progress map.    *)
C14_HighestFirstInMap ==
  (Selected /\ result.ret = "recorded")
    => /\ ReturnedPos \in Candidates(result.pre, result.at)
       /\ ReturnedIsHighest
       /\ \A j \in Candidates(result.pre, result.at) :
            FracEq(PriorityAtCall(j), PriorityAtCall(ReturnedPos))
              => ReturnedPos <= j

(* a tie at the highest priority between records stored out of catalog order *)
C14_Witness ==
  /\ Selected
  /\ result.ret = "recorded"
  /\ \E j \in Candidates(result.pre, result.at) :
       /\ j > ReturnedPos
       /\ FracEq(PriorityAtCall(j), PriorityAtCall(ReturnedPos))
       /\ result.pre[j].k < result.word

----------------------------------------------------------------------------
(* Properties of loading and recording (specification SpecStore)           *)

HistoryLen(d) ==
  IF "attempt_history" \in DOMAIN d THEN Len(d["attempt_history"]) ELSE 0

(* C15: after any sequence of load_progress and update_progress, every     *)
(* record of the progress map has attempts = len(attempt_history).         *)
C15_AttemptsMatchHistory ==
  \A i \in DOMAIN progress :
    progress[i].v["attempts"] = HistoryLen(progress[i].v)

----------------------------------------------------------------------------
(* Further properties of the recorder (specification Spec)                 *)

(* C16: after an update_progress call that recorded the attempt, the       *)
(* word's review_intervals holds at most MAX_REVIEW_INTERVALS_HISTORY      *)
(* entries, the most recent ones in order: the list before the call with   *)
(* the new entry appended and the oldest dropped beyond the cap.           *)
C16_ReviewIntervalsCapped ==
  (Updated /\ result.raised \in {"none", "OSError"})
    => /\ Len(After["review_intervals"]) <= MAX_REVIEW_INTERVALS_HISTORY
       /\ (HadRecord /\ Len(Before["review_intervals"]) >= MAX_REVIEW_INTERVALS_HISTORY)
            => \A i \in 1 .. MAX_REVIEW_INTERVALS_HISTORY - 1 :
                 After["review_intervals"][i] =
                   Before["review_intervals"][i + 1 + Len(Before["review_intervals"])
                                                - MAX_REVIEW_INTERVALS_HISTORY]

(* C17: update_progress sets first_introduced to the time of the call when *)
(* it creates the record, and no update of an existing record changes,     *)
(* adds or removes it, whatever the outcome.                               *)
C17_FirstIntroducedFrozen ==
  Updated
    => /\ ~HadRecord => After["first_introduced"] = result.at
       /\ HadRecord =>
            IF "first_introduced" \in DOMAIN Before
            THEN /\ "first_introduced" \in DOMAIN After
                 /\ After["first_introduced"] = Before["first_introduced"]
            ELSE "first_introduced" \notin DOMAIN After

(* a record created in this run has been updated again at a later time *)
C17_Witness ==
  /\ Updated
  /\ HadRecord
  /\ result.word \in created
  /\ result.raised = "none"
  /\ result.at > Before["first_introduced"]
  /\ After["first_introduced"] = Before["first_introduced"]

----------------------------------------------------------------------------
(* Properties of is_mastered (specification SpecMastery)                   *)

Evaluated == result.op = "is_mastered"

TheRecord == Get(progress, 1)

FourHundredDays == 400 * 24 * TicksPerHour

(* the exact rate of the record is MASTERY_SUCCESS_RATE *)
AtThreshold(d, t) ==
  FracEq(calculate_weighted_success_rate(AttemptHistoryOf(d), t),
         Frac(MASTERY_SUCCESS_RATE, 100))

(* C18 as stated: a record mastered at time 0 (its attempts within the     *)
(* hour before) is not mastered when is_mastered is evaluated 400 days or  *)
(* more later with no new attempt.                                         *)
C18_AsStated ==
  (Evaluated /\ is_mastered(TheRecord, 0) /\ result.at >= FourHundredDays)
    => result.ret = "False"

(* C18: a record whose rate is not exactly MASTERY_SUCCESS_RATE gets the   *)
(* same verdict from is_mastered at every later time as at time 0, with no *)
(* new attempt: a record mastered now is still mastered 400 days later.    *)
C18_VerdictKeeps ==
  (Evaluated /\ ~AtThreshold(TheRecord, result.at))
    => (result.success = is_mastered(TheRecord, 0))

(* nine successes of ten attempts, evaluated 400 days later *)
C18_Witness ==
  /\ Evaluated
  /\ TheRecord = SeasonedRecord
  /\ result.at >= FourHundredDays
  /\ result.ret = "True"

(* C19: for a fixed attempt history, a later evaluation of is_mastered     *)
(* never gives true after an earlier one gave false.                       *)
C19_NeverFalseToTrue ==
  (Evaluated /\ result.prev = "False") => result.ret = "False"

(* C20: is_mastered is true exactly when successes >= MASTERY_MIN_SUCCESSES *)
(* and the weighted success rate of attempt_history is at least            *)
(* MASTERY_SUCCESS_RATE; an empty record, a record with zero attempts and  *)
(* a record with an empty or missing attempt_history are not mastered.     *)
C20_MasteryCriterion ==
  Evaluated
    => /\ result.success
            = (/\ DOMAIN TheRecord # {}
               /\ "successes" \in DOMAIN TheRecord
               /\ TheRecord["successes"] >= MASTERY_MIN_SUCCESSES
               /\ ~FracLess(result.rate, Frac(MASTERY_SUCCESS_RATE, 100)))
       /\ \/ DOMAIN TheRecord = {}
          \/ TheRecord["attempts"] = 0
          \/ AttemptHistoryOf(TheRecord) = <<>>
          => ~result.success

(* five failures three half-lives ago and five successes now: raw rate     *)
(* 0.5, weighted rate 8/9                                                  *)
C20_Witness ==
  /\ Evaluated
  /\ TheRecord = HistoryRecord(5, 0 - 3 * HalfLifeTicks, 5, 0)
  /\ result.success

----------------------------------------------------------------------------
(* Further properties of loading (specification SpecStore)                 *)

Loaded == result.op = "load_progress"

(* C21: after load_progress, from the local file or from Firebase, every   *)
(* record holds review_intervals, last_attempt_was_failure and             *)
(* attempt_history, a field absent in the stored record being [], false    *)
(* and [].                                                                 *)
C21_LoadedRecordsComplete ==
  Loaded =>
    \A i \in DOMAIN progress :
      {"review_intervals", "last_attempt_was_failure", "attempt_history"}
        \subseteq DOMAIN progress[i].v

----------------------------------------------------------------------------
(* Further properties of the recorder (specification Spec)                 *)

(* a success recorded on a record whose interval is neither 0 nor          *)
(* FIRST_SUCCESS_INTERVAL                                                  *)
EstablishedSuccess ==
  /\ Updated /\ result.success /\ HadRecord
  /\ result.raised \in {"none", "OSError"}
  /\ Before["interval"] \notin {0, FIRST_SUCCESS_INTERVAL}

HoursSinceLastSeen == result.at - Before["last_seen"]

(* C22 as stated: a success on an Established record sets interval to      *)
(* (hours since last_seen) x (easiness_factor before the call), for every  *)
(* time of the attempt.                                                    *)
C22_AsStated ==
  EstablishedSuccess
    => After["interval"] = HoursSinceLastSeen * Before["easiness_factor"]

(* C22: a success on an Established record sets interval to (hours since   *)
(* last_seen) x (easiness_factor before the call) when time has passed     *)
(* since last_seen, and to (interval before the call) x (easiness_factor   *)
(* before the call) when none has; the easiness adjustment of the same     *)
(* call does not enter the new interval.                                   *)
C22_EstablishedInterval ==
  EstablishedSuccess
    => After["interval"] =
         IF HoursSinceLastSeen > 0
         THEN HoursSinceLastSeen * Before["easiness_factor"]
         ELSE (Before["interval"] * Before["easiness_factor"]) \div 10

(* a success after a positive delay on a record whose easiness factor the  *)
(* call has raised                                                         *)
C22_Witness ==
  /\ EstablishedSuccess
  /\ HoursSinceLastSeen > 0
  /\ After["easiness_factor"] = Before["easiness_factor"] + EASINESS_INCREASE
  /\ After["interval"] = HoursSinceLastSeen * Before["easiness_factor"]

----------------------------------------------------------------------------
(* Frame of select_word (specification SpecSelect)                         *)

(* C23: select_word changes no field of a record that existed before the   *)
(* call and removes no record; the one record it may add, through          *)
(* initialize_progress_fn, is that of the new item it returns.             *)
C23_SelectReadOnly ==
  Selected
    => /\ Len(progress) >= Len(result.pre)
       /\ \A i \in DOMAIN result.pre : progress[i] = result.pre[i]
       /\ Len(progress) <= Len(result.pre) + 1
       /\ Len(progress) > Len(result.pre)
            => /\ result.ret = "new"
               /\ progress[Len(progress)].k = result.word
               /\ ~Has(result.pre, result.word)

(* a new item has been returned and its record created next to the        *)
(* records the map already had                                             *)
C23_Witness ==
  /\ Selected
  /\ result.ret = "new"
  /\ Len(result.pre) > 0
  /\ Len(progress) = Len(result.pre) + 1
  /\ Get(progress, result.word) = NewRecord(result.at)

----------------------------------------------------------------------------
(* Properties of selection over time (specification SpecComputed)          *)

(* C24: select_word never returns an item its own call finds mastered, and *)
(* an item found mastered by an earlier call is not returned by a later    *)
(* one, no attempt having been recorded in between, however much later.    *)
C24_MasteredNeverReturned ==
  (Selected /\ ReturnedItem /\ "mastered" \in DOMAIN result)
    => result.word \notin result.mastered \cup result.prev_mastered

----------------------------------------------------------------------------
(* Properties of repeated rounds (specification SpecRounds)                *)

(* the item of id w has a record that is due and not mastered when the     *)
(* rounds start                                                            *)
DueAtStart(w) ==
  /\ steps = 0
  /\ Has(progress, w)
  /\ Due(Get(progress, w), now)

ReturnedWord(w) == Selected /\ ReturnedItem /\ result.word = w

StarvedBy(w, v) ==
  /\ Updated /\ result.word = w /\ ~result.success
  /\ Has(progress, w) /\ Has(progress, v)
  /\ IndexOf(progress, w) < IndexOf(progress, v)
  /\ Due(Get(progress, v), now)

(* the starving round repeats itself: an hour after w was failed with v    *)
(* due behind it, select_word returns w again, and another failure of w    *)
(* leaves v due behind it as before.  It holds in every state, so the run  *)
(* that violates C25 goes on in the same way past any number of rounds.    *)
StarvationRepeats ==
  [][\A w, v \in 1 .. 2 :
       /\ (StarvedBy(w, v) /\ now' - now >= TicksPerHour /\ Selected')
            => (ReturnedWord(w)' /\ Due(Get(progress, v), now)')
       /\ (ReturnedWord(w) /\ Has(progress, v)
           /\ IndexOf(progress, w) < IndexOf(progress, v)
           /\ Due(Get(progress, v), now) /\ Updated' /\ ~result'.success)
            => StarvedBy(w, v)']_vars

(* the third failed round in a row with v still waiting *)
StarvationWitness ==
  /\ StarvedBy(1, 2)
  /\ Get(progress, 1)["attempts"] - Get(progress, 1)["successes"] >= 3
  /\ Get(progress, 2) = SeededRecord

----------------------------------------------------------------------------
(* Intervals of attempted words (specification Spec)                       *)

(* C26: a word for which update_progress has recorded an attempt has a     *)
(* strictly positive interval from then on, also when an attempt carries   *)
(* the time of the attempt before it.                                      *)
C26_IntervalStaysPositive ==
  /\ \A w \in created : Get(progress, w)["interval"] > 0
  /\ (Updated /\ result.raised \in {"none", "OSError"})
       => After["interval"] > 0

(* a third success recorded at the very time of the second one *)
C26_Witness ==
  /\ Updated /\ result.success /\ HadRecord
  /\ result.word \in created
  /\ result.raised = "none"
  /\ result.at = Before["last_seen"]
  /\ Before["interval"] = SECOND_SUCCESS_INTERVAL
  /\ After["interval"] = (SECOND_SUCCESS_INTERVAL * INITIAL_EASINESS_FACTOR) \div 10

----------------------------------------------------------------------------
(* Properties of practice_mode on homonyms (specification SpecHomonyms)    *)

(* C27: the word id practice_mode derives for the progress update of a     *)
(* presentation is the id of the item select_word returned, also when two  *)
(* catalog rows have the same japanese text.                               *)
C27_UpdateTargetsSelected ==
  (Selected /\ ReturnedItem /\ pm.pc = "asking") => pm.word_id = result.word

----------------------------------------------------------------------------
(* Success after a failure (specification Spec)                            *)

(* a success recorded on a record whose last attempt was a failure *)
SuccessAfterFailure ==
  /\ Updated /\ result.success /\ HadRecord
  /\ result.raised \in {"none", "OSError"}
  /\ Before["last_attempt_was_failure"]

(* C28: the success that follows a failure sets interval to                *)
(* SECOND_SUCCESS_INTERVAL, whatever the record was before the failure and *)
(* whatever the time between the two attempts, also when the failure was   *)
(* the first attempt on the word.                                          *)
C28_SecondIntervalAfterFailure ==
  SuccessAfterFailure => After["interval"] = SECOND_SUCCESS_INTERVAL

(* the first attempt on a new word was a failure, the second a success *)
C28_Witness ==
  /\ SuccessAfterFailure
  /\ result.word \in created
  /\ Before["attempts"] = 1
  /\ Before["successes"] = 0
  /\ After["interval"] = SECOND_SUCCESS_INTERVAL

----------------------------------------------------------------------------
(* Counters and history (specification Spec)                               *)

RECURSIVE CountSuccesses(_)
CountSuccesses(attempt_history) ==
  IF attempt_history = <<>> THEN 0
  ELSE (IF Head(attempt_history).success THEN 1 ELSE 0)
       + CountSuccesses(Tail(attempt_history))

(* C29: in a record created and changed by update_progress only,           *)
(* successes is the number of entries of attempt_history with success      *)
(* true, so that 0 <= successes <= attempts.                               *)
C29_SuccessesMatchHistory ==
  \A w \in created :
    LET d == Get(progress, w) IN
    /\ d["successes"] = CountSuccesses(d["attempt_history"])
    /\ 0 <= d["successes"]
    /\ d["successes"] <= d["attempts"]

(* a word created in this run with a failure between two successes *)
C29_Witness ==
  \E w \in created :
    LET d == Get(progress, w) IN
    /\ d["attempts"] = 3
    /\ d["successes"] = 2
    /\ ~d["attempt_history"][2].success

----------------------------------------------------------------------------
(* The two recorders side by side (specification SpecRecorders)            *)

ComparedFields ==
  {"attempts", "successes", "interval", "easiness_factor",
   "last_attempt_was_failure", "review_intervals"}

Compared(d) == [f \in ComparedFields \cap DOMAIN d |-> d[f]]

(* C30: after the two recorders have recorded the same outcomes at the     *)
(* same times from the same starting record, their records agree on        *)
(* attempts, successes, interval, easiness_factor,                         *)
(* last_attempt_was_failure and review_intervals.                          *)
C30_RecordersAgree ==
  result.op = "service_update_progress"
    => Compared(Get(progress, 1)) = Compared(Get(service.progress, 1))

====
